---- MODULE Spec2Model ----
(***************************************************************************)
(* PushDisco: the audio synthesis pipeline of generate_audio.py            *)
(* (generate_disco_audio, convert_wav_to_mp3, main) and the button/relay   *)
(* controller of push_disco.py with its dry-run script simulate_run.py.    *)
(*                                                                         *)
(* Times are kept in milliseconds (every time literal of the source is a   *)
(* whole number of milliseconds), amplitudes in hundredths of full scale.   *)
(* The sample buffer is kept run-length encoded.  A voice writes its mix   *)
(* level over its slice; the sine, the decay and the noise inside the      *)
(* slice are not computed.                                                 *)
(***************************************************************************)
EXTENDS Integers, Sequences, FiniteSets, TLC

VARIABLES
    pc,            \* position of main() / generate_disco_audio
    raised,        \* exception that left generate_disco_audio, or "none"
    duration,      \* argument duration, in milliseconds
    bpm,           \* argument bpm
    melody_notes,  \* note table of the lead sequencer
    bass_notes,    \* note table of the bass sequencer
    num_samples,   \* int(sample_rate * duration)
    audio,         \* the sample buffer
    i,             \* loop variable of the kick and hi-hat loops
    kick_log,      \* one record per iteration of the kick loop
    hihat_log,     \* one record per iteration of the hi-hat loop
    current_time,  \* current_time of the running sequencer, milliseconds
    note_idx,      \* position of the for loop in the note table
    lead_log,      \* one record per lead note written to the buffer
    bass_log,      \* one record per bass note written to the buffer
    audio_int16,   \* the quantized buffer
    wav_file,      \* the containers written by wave.open (none or one)
    encoder,       \* outcome of the subprocess.run call
    result_path,   \* value returned by convert_wav_to_mp3
    script,        \* the entry point run: "generate_audio", "push_disco", "simulate_run"
    gpiozero_ok,   \* import gpiozero succeeds
    rpigpio_ok,    \* import RPi.GPIO succeeds
    GPIO_BACKEND,  \* module variable of push_disco
    main_pc,       \* position of the main thread of the controller script
    relay_duration,\* self.relay_duration, milliseconds
    now,           \* time.time(), milliseconds
    presses,       \* button callbacks delivered so far
    last_button_press, \* self.last_button_press
    is_playing,    \* self.is_playing
    relay,         \* state of the relay output
    hpc,           \* position of each handle_button_press execution
    rpc,           \* position of each activate_relay thread
    apc,           \* position of each play_audio thread
    wake,          \* end of the time.sleep of each activate_relay thread
    played         \* how each play_audio ended

synth_vars == <<pc, raised, duration, bpm, melody_notes, bass_notes,
                num_samples, audio, i, kick_log, hihat_log, current_time,
                note_idx, lead_log, bass_log, audio_int16, wav_file,
                encoder, result_path>>

ctl_vars == <<script, gpiozero_ok, rpigpio_ok, GPIO_BACKEND, main_pc,
              relay_duration, now, presses, last_button_press, is_playing,
              relay, hpc, rpc, apc, wake, played>>

vars == <<synth_vars, ctl_vars>>

----------------------------------------------------------------------------
(* Bounds of the model *)

MaxDurationSec == 4      \* whole-second durations 1..MaxDurationSec
MaxBufLen == 3           \* samples of a drawn buffer (MixSpec)
MaxHandlers == 2         \* handle_button_press executions (CtlSpec)
MaxPresses == 2          \* button callbacks (CtlSpec)

(* Program constants *)

sample_rate == 44100
KickWindowMs == 150
HiHatWindowMs == 100
KickLevel == 30
HiHatLevel == 15
LeadLevel == 25
BassLevel == 15
PeakNum == 95
PeakDen == 100
Unit == PeakDen           \* amplitudes are kept in hundredths
FullScale == 32767
DEBOUNCE_DELAY == 200
RELAY_DURATION == 15000
SIM_RELAY_DURATION == 1000

(* Inputs *)

Durations == {1000 * d : d \in 1..MaxDurationSec} \cup {15000} \cup {1, 1500}
Tempos == {60, 70, 120, 128, 200, 240, 300}

MelodyNotes ==
    << [freq |-> 262, dur |-> 250], [freq |-> 294, dur |-> 250],
       [freq |-> 330, dur |-> 250], [freq |-> 349, dur |-> 250],
       [freq |-> 392, dur |-> 500], [freq |-> 440, dur |-> 250],
       [freq |-> 494, dur |-> 250], [freq |-> 523, dur |-> 500] >>

BassNotes ==
    << [freq |-> 110, dur |-> 500], [freq |-> 123, dur |-> 500],
       [freq |-> 147, dur |-> 1000], [freq |-> 165, dur |-> 500] >>

\* a note table with a note shorter than attack + decay (100 ms < 150 ms)
ShortNotes ==
    << [freq |-> 262, dur |-> 250], [freq |-> 294, dur |-> 100] >>

----------------------------------------------------------------------------
(* Helpers *)

Min(a, b) == IF a < b THEN a ELSE b
Max(a, b) == IF a > b THEN a ELSE b
Abs(x) == IF x < 0 THEN -x ELSE x

\* Python int(): truncation toward zero of the quotient a/b, b > 0
TruncDiv(a, b) == IF a >= 0 THEN a \div b ELSE -((-a) \div b)

\* int(sample_rate * seconds) for a time given in milliseconds
ToSamples(ms) == TruncDiv(sample_rate * ms, 1000)

\* range(0, duration * k) needs an int: a float duration raises TypeError
IsIntDuration(d) == d % 1000 = 0

\* A buffer is [len, den, val]: len samples; val maps the first index of each
\* run of equal samples to the numerator of their amplitude, den is the
\* common denominator.

BufLen(buf) == buf.len

\* np.zeros(n)
Zeros(n) ==
    [len |-> n, den |-> Unit, val |-> [s \in (IF n > 0 THEN {0} ELSE {}) |-> 0]]

\* buf[x] for 0 <= x < len
ValAt(buf, x) ==
    LET S == DOMAIN buf.val
    IN buf.val[CHOOSE s \in S : s <= x /\ \A t \in S : t <= x => t <= s]

\* audio[a:b] += level (a slice is clipped to the array, as numpy does)
AddRange(buf, a, b, level) ==
    LET lo == Max(a, 0)
        hi == Min(b, buf.len)
        S  == DOMAIN buf.val \cup {lo} \cup (IF hi < buf.len THEN {hi} ELSE {})
    IN IF lo >= hi THEN buf
       ELSE [buf EXCEPT !.val =
                [x \in S |-> ValAt(buf, x) + (IF lo <= x /\ x < hi THEN level ELSE 0)]]

\* np.max(audio): the absolute value forgotten
MaxAbs_NoAbs(buf) ==
    LET A == {buf.val[s] : s \in DOMAIN buf.val}
    IN IF A = {} THEN 0 ELSE CHOOSE m \in A : \A y \in A : y <= m

\* np.max(np.abs(audio)), as a numerator over buf.den
MaxAbs(buf) ==
    LET A == {Abs(buf.val[s]) : s \in DOMAIN buf.val}
    IN IF A = {} THEN 0 ELSE CHOOSE m \in A : \A y \in A : y <= m

\* audio / max_val * 0.95 when max_val > 0, audio unchanged when it is 0
Normalized(buf) ==
    LET m == MaxAbs(buf)
    IN IF m > 0
       THEN [buf EXCEPT !.den = m * PeakDen,
                        !.val = [s \in DOMAIN buf.val |-> buf.val[s] * PeakNum]]
       ELSE buf

\* conversion of a value to a 16-bit signed integer (two's complement wrap)
Int16(x) == ((x + 32768) % 65536) - 32768

\* np.int16(audio * 32767): truncation toward zero, then the 16-bit cast
Quantized(buf) ==
    [len |-> buf.len,
     val |-> [s \in DOMAIN buf.val |->
                 Int16(TruncDiv(buf.val[s] * FullScale, buf.den))]]

\* start index of kick number k: int(i * sample_rate * beat_duration)
KickBeatStart(k, tempo) == TruncDiv(k * sample_rate * 60, tempo)

\* the beat length truncated to whole samples before it is multiplied
HiHatBeatStart_Drift(j, tempo) == (j * 2 + 1) * TruncDiv(sample_rate * 60, tempo)

\* start index of hi-hat number j: int((i * 2 + 1) * sample_rate * beat_duration)
HiHatBeatStart(j, tempo) == TruncDiv((j * 2 + 1) * sample_rate * 60, tempo)

\* the guard of both percussion loops: if beat_end < num_samples
HitFits(beat_end, n) == beat_end < n

\* number of iterations of range(0, duration * perSecond)
RangeCount(d, perSecond) == (d \div 1000) * perSecond

\* the clamp to the buffer length left out
NoteEnd_NoClamp(time, dur, n) == ToSamples(time + dur)

\* note_end = min(int((current_time + note_duration) * sample_rate), num_samples)
NoteEnd(time, dur, n) == Min(ToSamples(time + dur), n)

\* the guard at the head of both for bodies: if current_time >= duration: break
SequencerBreak(time, d) == time >= d

\* ADSR slice assignments on an envelope of L samples: numpy raises ValueError
\* when a slice and the linspace assigned to it differ in length
attack_samples == ToSamples(50)
sustain_start == ToSamples(50 + 100)
\* the slices of the envelope (L samples) that lines 97-107 assign, as numpy
\* clips them: attack, decay, sustain, release
EnvelopeSlices(L, dur) ==
    LET release_start == ToSamples(dur - 100)
    IN { [seg |-> "attack",  lo |-> 0, hi |-> Min(attack_samples, L)],
         [seg |-> "decay",   lo |-> Min(attack_samples, L), hi |-> Min(sustain_start, L)],
         [seg |-> "sustain", lo |-> Min(sustain_start, L), hi |-> L] }
       \cup (IF release_start < L
             THEN { [seg |-> "release", lo |-> Max(release_start, 0), hi |-> L] }
             ELSE {})

EnvelopeRaises(L) ==
    \/ Min(L, attack_samples) # attack_samples
    \/ Min(L, sustain_start) - Min(L, attack_samples) # sustain_start - attack_samples

\* the outcomes of subprocess.run(['ffmpeg', ...], timeout=30)
EncoderOutcomes == {"exit0", "nonzero", "FileNotFoundError", "TimeoutExpired", "OSError"}

\* only FileNotFoundError handled: the except Exception clause left out
ConvertResult_NoCatchAll(outcome, wav, mp3) ==
    CASE outcome = "exit0"             -> [path |-> mp3, escaped |-> "none"]
      [] outcome = "nonzero"           -> [path |-> wav, escaped |-> "none"]
      [] outcome = "FileNotFoundError" -> [path |-> wav, escaped |-> "none"]
      [] OTHER                         -> [path |-> wav, escaped |-> outcome]

\* convert_wav_to_mp3: the value returned and the exception that escapes
ConvertResult(outcome, wav, mp3) ==
    CASE outcome = "exit0"             -> [path |-> mp3, escaped |-> "none"]
      [] outcome = "nonzero"           -> [path |-> wav, escaped |-> "none"]
      [] outcome = "FileNotFoundError" -> [path |-> wav, escaped |-> "none"]
      [] OTHER                         -> [path |-> wav, escaped |-> "none"]

----------------------------------------------------------------------------
(* push_disco.py and simulate_run.py *)

Handlers == 1..MaxHandlers

\* lines 13-22 of push_disco.py: the backend chosen at import.  The module
\* reads no environment variable; simulate is the value of PUSH_DISCO_SIMULATE.
SelectBackend(gpiozero, rpigpio, simulate) ==
    IF gpiozero THEN "gpiozero"
    ELSE IF rpigpio THEN "RPi.GPIO"
    ELSE "None"

\* the controller is not running (the state of a generate_audio.py run)
CtlIdle ==
    /\ gpiozero_ok = FALSE
    /\ rpigpio_ok = FALSE
    /\ GPIO_BACKEND = "None"
    /\ main_pc = "off"
    /\ relay_duration = 0
    /\ now = 0
    /\ presses = 0
    /\ last_button_press = 0
    /\ is_playing = FALSE
    /\ relay = FALSE
    /\ hpc = [h \in Handlers |-> "none"]
    /\ rpc = [h \in Handlers |-> "none"]
    /\ apc = [h \in Handlers |-> "none"]
    /\ wake = [h \in Handlers |-> 0]
    /\ played = [h \in Handlers |-> "none"]

\* generate_audio.py is not running (the state of a controller run)
SynthIdle ==
    /\ pc = "off"
    /\ raised = "none"
    /\ duration = 0
    /\ bpm = 0
    /\ melody_notes = <<>>
    /\ bass_notes = <<>>
    /\ num_samples = 0
    /\ audio = Zeros(0)
    /\ i = 0
    /\ kick_log = <<>>
    /\ hihat_log = <<>>
    /\ current_time = 0
    /\ note_idx = 0
    /\ lead_log = <<>>
    /\ bass_log = <<>>
    /\ audio_int16 = Quantized(Zeros(0))
    /\ wav_file = <<>>
    /\ encoder = "none"
    /\ result_path = "none"

\* time.time() is seconds since the epoch: far beyond one debounce delay
StartTime == 10 * DEBOUNCE_DELAY

\* delays between two button callbacks
PressGaps == {DEBOUNCE_DELAY \div 2, DEBOUNCE_DELAY, RELAY_DURATION}

CtlInit ==
    /\ SynthIdle
    /\ script \in {"push_disco", "simulate_run"}
    /\ gpiozero_ok \in BOOLEAN
    /\ rpigpio_ok \in BOOLEAN
    /\ GPIO_BACKEND = "unset"
    /\ main_pc = "import"
    /\ relay_duration = 0
    /\ now = StartTime
    /\ presses = 0
    /\ last_button_press = 0
    /\ is_playing = FALSE
    /\ relay = FALSE
    /\ hpc = [h \in Handlers |-> "none"]
    /\ rpc = [h \in Handlers |-> "none"]
    /\ apc = [h \in Handlers |-> "none"]
    /\ wake = [h \in Handlers |-> 0]
    /\ played = [h \in Handlers |-> "none"]

\* import push_disco (simulate_run.py sets PUSH_DISCO_SIMULATE=1 first)
Import ==
    /\ main_pc = "import"
    /\ GPIO_BACKEND' = SelectBackend(gpiozero_ok, rpigpio_ok, script = "simulate_run")
    /\ main_pc' = IF script = "push_disco" THEN "main" ELSE "construct"
    /\ UNCHANGED <<script, gpiozero_ok, rpigpio_ok, relay_duration, now, presses,
                   last_button_press, is_playing, relay, hpc, rpc, apc, wake,
                   played>>
    /\ UNCHANGED synth_vars

\* main() of push_disco.py, lines 218-222: return when the audio file is missing
MainCheckAudio ==
    /\ main_pc = "main"
    /\ \E exists \in BOOLEAN :
         main_pc' = IF exists THEN "construct" ELSE "exited"
    /\ UNCHANGED <<script, gpiozero_ok, rpigpio_ok, GPIO_BACKEND, relay_duration,
                   now, presses, last_button_press, is_playing, relay, hpc, rpc,
                   apc, wake, played>>
    /\ UNCHANGED synth_vars

\* PushDiscoController.__init__, lines 48-73
Construct ==
    /\ main_pc = "construct"
    /\ relay_duration' = IF script = "simulate_run" THEN SIM_RELAY_DURATION
                         ELSE RELAY_DURATION
    /\ last_button_press' = 0
    /\ is_playing' = FALSE
    /\ IF GPIO_BACKEND \in {"gpiozero", "RPi.GPIO"}
       THEN /\ relay' = FALSE
            /\ main_pc' = IF script = "simulate_run" THEN "press" ELSE "run"
       ELSE /\ main_pc' = "RuntimeError"
            /\ UNCHANGED relay
    /\ UNCHANGED <<script, gpiozero_ok, rpigpio_ok, GPIO_BACKEND, now, presses,
                   hpc, rpc, apc, wake, played>>
    /\ UNCHANGED synth_vars

\* simulate_run.py line 32: controller.handle_button_press() in the main thread
SimPress ==
    /\ main_pc = "press"
    /\ hpc' = [hpc EXCEPT ![1] = "check"]
    /\ main_pc' = "in_handler"
    /\ UNCHANGED <<script, gpiozero_ok, rpigpio_ok, GPIO_BACKEND, relay_duration,
                   now, presses, last_button_press, is_playing, relay, rpc, apc,
                   wake, played>>
    /\ UNCHANGED synth_vars

\* simulate_run.py line 32 returns
SimReturn ==
    /\ main_pc = "in_handler"
    /\ hpc[1] = "done"
    /\ main_pc' = "cleanup"
    /\ UNCHANGED <<script, gpiozero_ok, rpigpio_ok, GPIO_BACKEND, relay_duration,
                   now, presses, last_button_press, is_playing, relay, hpc, rpc,
                   apc, wake, played>>
    /\ UNCHANGED synth_vars

\* the delay compared in the wrong unit: no callback is ever rejected
OnButtonPress_UnitSlip(gap) ==
    /\ main_pc = "run"
    /\ presses < MaxPresses
    /\ now' = now + gap
    /\ presses' = presses + 1
    /\ IF (now + gap) - last_button_press < DEBOUNCE_DELAY \div 1000
       THEN UNCHANGED <<last_button_press, hpc>>
       ELSE /\ \E h \in Handlers :
                 /\ hpc[h] = "none"
                 /\ \A g \in Handlers : g < h => hpc[g] # "none"
                 /\ hpc' = [hpc EXCEPT ![h] = "check"]
            /\ last_button_press' = now + gap
    /\ UNCHANGED <<script, gpiozero_ok, rpigpio_ok, GPIO_BACKEND, main_pc,
                   relay_duration, is_playing, relay, rpc, apc, wake, played>>
    /\ UNCHANGED synth_vars

\* on_button_press, lines 82-93, called gap milliseconds after the last event
OnButtonPress(gap) ==
    /\ main_pc = "run"
    /\ presses < MaxPresses
    /\ now' = now + gap
    /\ presses' = presses + 1
    /\ IF (now + gap) - last_button_press < DEBOUNCE_DELAY
       THEN UNCHANGED <<last_button_press, hpc>>
       ELSE /\ \E h \in Handlers :
                 /\ hpc[h] = "none"
                 /\ \A g \in Handlers : g < h => hpc[g] # "none"
                 /\ hpc' = [hpc EXCEPT ![h] = "check"]
            /\ last_button_press' = now + gap
    /\ UNCHANGED <<script, gpiozero_ok, rpigpio_ok, GPIO_BACKEND, main_pc,
                   relay_duration, is_playing, relay, rpc, apc, wake, played>>
    /\ UNCHANGED synth_vars

ButtonPress == \E gap \in PressGaps : OnButtonPress(gap)

ThreadsRun == main_pc \in {"run", "in_handler", "cleanup"}

\* handle_button_press line 97: if self.is_playing: return
HandlerCheck(h) ==
    /\ ThreadsRun
    /\ hpc[h] = "check"
    /\ hpc' = [hpc EXCEPT ![h] = IF is_playing THEN "ignored" ELSE "set"]
    /\ UNCHANGED <<script, gpiozero_ok, rpigpio_ok, GPIO_BACKEND, main_pc,
                   relay_duration, now, presses, last_button_press, is_playing,
                   relay, rpc, apc, wake, played>>
    /\ UNCHANGED synth_vars

\* line 101: self.is_playing = True
HandlerSet(h) ==
    /\ ThreadsRun
    /\ hpc[h] = "set"
    /\ is_playing' = TRUE
    /\ hpc' = [hpc EXCEPT ![h] = "start"]
    /\ UNCHANGED <<script, gpiozero_ok, rpigpio_ok, GPIO_BACKEND, main_pc,
                   relay_duration, now, presses, last_button_press, relay, rpc,
                   apc, wake, played>>
    /\ UNCHANGED synth_vars

\* lines 105-112: the relay thread and the audio thread are started
HandlerStart(h) ==
    /\ ThreadsRun
    /\ hpc[h] = "start"
    /\ rpc' = [rpc EXCEPT ![h] = "on"]
    /\ apc' = [apc EXCEPT ![h] = "play"]
    /\ hpc' = [hpc EXCEPT ![h] = "join"]
    /\ UNCHANGED <<script, gpiozero_ok, rpigpio_ok, GPIO_BACKEND, main_pc,
                   relay_duration, now, presses, last_button_press, is_playing,
                   relay, wake, played>>
    /\ UNCHANGED synth_vars

\* lines 115-121: both joins return, finally: self.is_playing = False
HandlerFinish(h) ==
    /\ ThreadsRun
    /\ hpc[h] = "join"
    /\ rpc[h] = "done"
    /\ apc[h] = "done"
    /\ is_playing' = FALSE
    /\ hpc' = [hpc EXCEPT ![h] = "done"]
    /\ UNCHANGED <<script, gpiozero_ok, rpigpio_ok, GPIO_BACKEND, main_pc,
                   relay_duration, now, presses, last_button_press, relay, rpc,
                   apc, wake, played>>
    /\ UNCHANGED synth_vars

\* the early return placed inside the try: finally resets is_playing
HandlerIgnored_InsideTry(h) ==
    /\ ThreadsRun
    /\ hpc[h] = "ignored"
    /\ is_playing' = FALSE
    /\ hpc' = [hpc EXCEPT ![h] = "done"]
    /\ UNCHANGED <<script, gpiozero_ok, rpigpio_ok, GPIO_BACKEND, main_pc,
                   relay_duration, now, presses, last_button_press, relay, rpc,
                   apc, wake, played>>
    /\ UNCHANGED synth_vars

\* the ignored call returns (line 99, before the try statement)
HandlerIgnored(h) ==
    /\ ThreadsRun
    /\ hpc[h] = "ignored"
    /\ hpc' = [hpc EXCEPT ![h] = "done"]
    /\ UNCHANGED <<script, gpiozero_ok, rpigpio_ok, GPIO_BACKEND, main_pc,
                   relay_duration, now, presses, last_button_press, is_playing,
                   relay, rpc, apc, wake, played>>
    /\ UNCHANGED synth_vars

\* activate_relay lines 125-133: relay on, time.sleep(self.relay_duration)
RelayOn(h) ==
    /\ ThreadsRun
    /\ rpc[h] = "on"
    /\ relay' = TRUE
    /\ wake' = [wake EXCEPT ![h] = now + relay_duration]
    /\ rpc' = [rpc EXCEPT ![h] = "sleep"]
    /\ UNCHANGED <<script, gpiozero_ok, rpigpio_ok, GPIO_BACKEND, main_pc,
                   relay_duration, now, presses, last_button_press, is_playing,
                   hpc, apc, played>>
    /\ UNCHANGED synth_vars

\* activate_relay lines 135-141: the sleep is over, relay off
RelayOff(h) ==
    /\ ThreadsRun
    /\ rpc[h] = "sleep"
    /\ now' = Max(now, wake[h])
    /\ relay' = FALSE
    /\ rpc' = [rpc EXCEPT ![h] = "done"]
    /\ UNCHANGED <<script, gpiozero_ok, rpigpio_ok, GPIO_BACKEND, main_pc,
                   relay_duration, presses, last_button_press, is_playing, hpc,
                   apc, wake, played>>
    /\ UNCHANGED synth_vars

\* play_audio, lines 145-169 (replaced by _fake_play_audio in simulate_run.py)
AudioOutcomes == {"missing", "no_player", "completed", "CalledProcessError"}

PlayAudio(h) ==
    /\ ThreadsRun
    /\ apc[h] = "play"
    /\ \E out \in AudioOutcomes :
         played' = [played EXCEPT ![h] =
                       IF script = "simulate_run" THEN "pretend" ELSE out]
    /\ apc' = [apc EXCEPT ![h] = "done"]
    /\ UNCHANGED <<script, gpiozero_ok, rpigpio_ok, GPIO_BACKEND, main_pc,
                   relay_duration, now, presses, last_button_press, is_playing,
                   relay, hpc, rpc, wake>>
    /\ UNCHANGED synth_vars

\* run(), lines 179-188: KeyboardInterrupt ends the loop
Interrupt ==
    /\ main_pc = "run"
    /\ main_pc' = "cleanup"
    /\ UNCHANGED <<script, gpiozero_ok, rpigpio_ok, GPIO_BACKEND, relay_duration,
                   now, presses, last_button_press, is_playing, relay, hpc, rpc,
                   apc, wake, played>>
    /\ UNCHANGED synth_vars

\* cleanup(), lines 190-212; the daemon threads end with the process
Cleanup ==
    /\ main_pc = "cleanup"
    /\ relay' = FALSE
    /\ main_pc' = "exited"
    /\ UNCHANGED <<script, gpiozero_ok, rpigpio_ok, GPIO_BACKEND, relay_duration,
                   now, presses, last_button_press, is_playing, hpc, rpc, apc,
                   wake, played>>
    /\ UNCHANGED synth_vars

CtlNext ==
    \/ Import
    \/ MainCheckAudio
    \/ Construct
    \/ SimPress
    \/ SimReturn
    \/ ButtonPress
    \/ \E h \in Handlers : HandlerCheck(h)
    \/ \E h \in Handlers : HandlerSet(h)
    \/ \E h \in Handlers : HandlerStart(h)
    \/ \E h \in Handlers : HandlerFinish(h)
    \/ \E h \in Handlers : HandlerIgnored(h)
    \/ \E h \in Handlers : RelayOn(h)
    \/ \E h \in Handlers : RelayOff(h)
    \/ \E h \in Handlers : PlayAudio(h)
    \/ Interrupt
    \/ Cleanup

CtlSpec == CtlInit /\ [][CtlNext]_vars

----------------------------------------------------------------------------
(* generate_disco_audio *)

NoLog == <<>>

SynthInit ==
    /\ pc = "start"
    /\ raised = "none"
    /\ duration \in Durations
    /\ bpm \in Tempos
    /\ melody_notes \in {MelodyNotes, <<>>, ShortNotes}
    /\ bass_notes \in {BassNotes, <<>>}
    /\ num_samples = 0
    /\ audio = Zeros(0)
    /\ i = 0
    /\ kick_log = NoLog
    /\ hihat_log = NoLog
    /\ current_time = 0
    /\ note_idx = 0
    /\ lead_log = NoLog
    /\ bass_log = NoLog
    /\ audio_int16 = Quantized(Zeros(0))
    /\ wav_file = <<>>
    /\ encoder = "none"
    /\ result_path = "none"
    /\ script = "generate_audio"
    /\ CtlIdle

\* lines 23-33: num_samples, the zero buffer
Timebase ==
    /\ pc = "start"
    /\ num_samples' = ToSamples(duration)
    /\ audio' = Zeros(ToSamples(duration))
    /\ i' = 0
    /\ pc' = "kick"
    /\ UNCHANGED <<raised, duration, bpm, melody_notes, bass_notes, kick_log,
                   hihat_log, current_time, note_idx, lead_log, bass_log,
                   audio_int16, wav_file, encoder, result_path>>
    /\ UNCHANGED ctl_vars

\* range(0, duration * 4) with a float duration
KickRangeError ==
    /\ pc = "kick"
    /\ ~IsIntDuration(duration)
    /\ raised' = "TypeError"
    /\ pc' = "raised"
    /\ UNCHANGED <<duration, bpm, melody_notes, bass_notes, num_samples, audio,
                   i, kick_log, hihat_log, current_time, note_idx, lead_log,
                   bass_log, audio_int16, wav_file, encoder, result_path>>
    /\ UNCHANGED ctl_vars

\* one iteration of the kick loop, lines 37-43
KickStep ==
    /\ pc = "kick"
    /\ IsIntDuration(duration)
    /\ i < RangeCount(duration, 4)
    /\ LET beat_start == KickBeatStart(i, bpm)
           beat_end   == beat_start + ToSamples(KickWindowMs)
           fits       == HitFits(beat_end, num_samples)
       IN /\ audio' = IF fits THEN AddRange(audio, beat_start, beat_end, KickLevel)
                      ELSE audio
          /\ kick_log' = Append(kick_log,
                 [i |-> i, beat_start |-> beat_start, beat_end |-> beat_end,
                  written |-> fits])
    /\ i' = i + 1
    /\ UNCHANGED <<pc, raised, duration, bpm, melody_notes, bass_notes,
                   num_samples, hihat_log, current_time, note_idx, lead_log,
                   bass_log, audio_int16, wav_file, encoder, result_path>>
    /\ UNCHANGED ctl_vars

KickExit ==
    /\ pc = "kick"
    /\ IsIntDuration(duration)
    /\ i >= RangeCount(duration, 4)
    /\ i' = 0
    /\ pc' = "hihat"
    /\ UNCHANGED <<raised, duration, bpm, melody_notes, bass_notes, num_samples,
                   audio, kick_log, hihat_log, current_time, note_idx, lead_log,
                   bass_log, audio_int16, wav_file, encoder, result_path>>
    /\ UNCHANGED ctl_vars

\* one iteration of the hi-hat loop, lines 47-54
HiHatStep ==
    /\ pc = "hihat"
    /\ i < RangeCount(duration, 2)
    /\ LET beat_start == HiHatBeatStart(i, bpm)
           beat_end   == beat_start + ToSamples(HiHatWindowMs)
           fits       == HitFits(beat_end, num_samples)
       IN /\ audio' = IF fits THEN AddRange(audio, beat_start, beat_end, HiHatLevel)
                      ELSE audio
          /\ hihat_log' = Append(hihat_log,
                 [i |-> i, beat_start |-> beat_start, beat_end |-> beat_end,
                  written |-> fits])
    /\ i' = i + 1
    /\ UNCHANGED <<pc, raised, duration, bpm, melody_notes, bass_notes,
                   num_samples, kick_log, current_time, note_idx, lead_log,
                   bass_log, audio_int16, wav_file, encoder, result_path>>
    /\ UNCHANGED ctl_vars

\* end of the hi-hat loop; line 70: current_time = 0
HiHatExit ==
    /\ pc = "hihat"
    /\ i >= RangeCount(duration, 2)
    /\ current_time' = 0
    /\ pc' = "melody_while"
    /\ UNCHANGED <<raised, duration, bpm, melody_notes, bass_notes, num_samples,
                   audio, i, kick_log, hihat_log, note_idx, lead_log, bass_log,
                   audio_int16, wav_file, encoder, result_path>>
    /\ UNCHANGED ctl_vars

\* the table restarted one entry too far
MelodyWhile_RestartSecond ==
    /\ pc = "melody_while"
    /\ current_time < duration
    /\ note_idx' = 2
    /\ pc' = "melody_for"
    /\ UNCHANGED <<raised, duration, bpm, melody_notes, bass_notes, num_samples,
                   audio, i, kick_log, hihat_log, current_time, lead_log,
                   bass_log, audio_int16, wav_file, encoder, result_path>>
    /\ UNCHANGED ctl_vars

\* while current_time < duration: enter the for loop over the melody table
MelodyWhile ==
    /\ pc = "melody_while"
    /\ current_time < duration
    /\ note_idx' = 1
    /\ pc' = "melody_for"
    /\ UNCHANGED <<raised, duration, bpm, melody_notes, bass_notes, num_samples,
                   audio, i, kick_log, hihat_log, current_time, lead_log,
                   bass_log, audio_int16, wav_file, encoder, result_path>>
    /\ UNCHANGED ctl_vars

\* the while condition is false; line 123: current_time = 0
MelodyExit ==
    /\ pc = "melody_while"
    /\ ~(current_time < duration)
    /\ current_time' = 0
    /\ pc' = "bass_while"
    /\ UNCHANGED <<raised, duration, bpm, melody_notes, bass_notes, num_samples,
                   audio, i, kick_log, hihat_log, note_idx, lead_log, bass_log,
                   audio_int16, wav_file, encoder, result_path>>
    /\ UNCHANGED ctl_vars

\* the for loop ends: table exhausted, or break at line 76
MelodyForEnd ==
    /\ pc = "melody_for"
    /\ \/ note_idx > Len(melody_notes)
       \/ SequencerBreak(current_time, duration)
    /\ pc' = "melody_while"
    /\ UNCHANGED <<raised, duration, bpm, melody_notes, bass_notes, num_samples,
                   audio, i, kick_log, hihat_log, current_time, note_idx,
                   lead_log, bass_log, audio_int16, wav_file, encoder,
                   result_path>>
    /\ UNCHANGED ctl_vars

\* one lead note, lines 78-113
MelodyNote ==
    /\ pc = "melody_for"
    /\ note_idx <= Len(melody_notes)
    /\ ~SequencerBreak(current_time, duration)
    /\ LET note       == melody_notes[note_idx]
           note_start == ToSamples(current_time)
           note_end   == NoteEnd(current_time, note.dur, num_samples)
           emitted    == note_start < num_samples
           L          == Max(note_end - note_start, 0)
       IN IF emitted /\ EnvelopeRaises(L)
          THEN /\ raised' = "ValueError"
               /\ pc' = "raised"
               /\ UNCHANGED <<audio, lead_log, current_time, note_idx>>
          ELSE /\ audio' = IF emitted
                           THEN AddRange(audio, note_start, note_end, LeadLevel)
                           ELSE audio
               /\ lead_log' = IF emitted
                              THEN Append(lead_log,
                                     [idx |-> note_idx, freq |-> note.freq,
                                      time |-> current_time, dur |-> note.dur,
                                      note_start |-> note_start,
                                      note_end |-> note_end])
                              ELSE lead_log
               /\ current_time' = current_time + note.dur
               /\ note_idx' = note_idx + 1
               /\ UNCHANGED <<pc, raised>>
    /\ UNCHANGED <<duration, bpm, melody_notes, bass_notes, num_samples, i,
                   kick_log, hihat_log, bass_log, audio_int16, wav_file,
                   encoder, result_path>>
    /\ UNCHANGED ctl_vars

BassWhile ==
    /\ pc = "bass_while"
    /\ current_time < duration
    /\ note_idx' = 1
    /\ pc' = "bass_for"
    /\ UNCHANGED <<raised, duration, bpm, melody_notes, bass_notes, num_samples,
                   audio, i, kick_log, hihat_log, current_time, lead_log,
                   bass_log, audio_int16, wav_file, encoder, result_path>>
    /\ UNCHANGED ctl_vars

BassExit ==
    /\ pc = "bass_while"
    /\ ~(current_time < duration)
    /\ pc' = "normalize"
    /\ UNCHANGED <<raised, duration, bpm, melody_notes, bass_notes, num_samples,
                   audio, i, kick_log, hihat_log, current_time, note_idx,
                   lead_log, bass_log, audio_int16, wav_file, encoder,
                   result_path>>
    /\ UNCHANGED ctl_vars

BassForEnd ==
    /\ pc = "bass_for"
    /\ \/ note_idx > Len(bass_notes)
       \/ SequencerBreak(current_time, duration)
    /\ pc' = "bass_while"
    /\ UNCHANGED <<raised, duration, bpm, melody_notes, bass_notes, num_samples,
                   audio, i, kick_log, hihat_log, current_time, note_idx,
                   lead_log, bass_log, audio_int16, wav_file, encoder,
                   result_path>>
    /\ UNCHANGED ctl_vars

\* one bass note, lines 129-139
BassNote ==
    /\ pc = "bass_for"
    /\ note_idx <= Len(bass_notes)
    /\ ~SequencerBreak(current_time, duration)
    /\ LET note       == bass_notes[note_idx]
           note_start == ToSamples(current_time)
           note_end   == NoteEnd(current_time, note.dur, num_samples)
           emitted    == note_start < num_samples
       IN /\ audio' = IF emitted
                      THEN AddRange(audio, note_start, note_end, BassLevel)
                      ELSE audio
          /\ bass_log' = IF emitted
                         THEN Append(bass_log,
                                [idx |-> note_idx, freq |-> note.freq,
                                 time |-> current_time, dur |-> note.dur,
                                 note_start |-> note_start,
                                 note_end |-> note_end])
                         ELSE bass_log
          /\ current_time' = current_time + note.dur
    /\ note_idx' = note_idx + 1
    /\ UNCHANGED <<pc, raised, duration, bpm, melody_notes, bass_notes,
                   num_samples, i, kick_log, hihat_log, lead_log, audio_int16,
                   wav_file, encoder, result_path>>
    /\ UNCHANGED ctl_vars

\* silence (max_val = 0) treated as an error
Normalize_SilenceRaises ==
    /\ pc = "normalize"
    /\ IF MaxAbs(audio) = 0
       THEN /\ raised' = "ValueError"
            /\ pc' = "raised"
            /\ UNCHANGED audio
       ELSE /\ audio' = Normalized(audio)
            /\ pc' = "quantize"
            /\ UNCHANGED raised
    /\ UNCHANGED <<duration, bpm, melody_notes, bass_notes, num_samples, i,
                   kick_log, hihat_log, current_time, note_idx, lead_log,
                   bass_log, audio_int16, wav_file, encoder, result_path>>
    /\ UNCHANGED ctl_vars

\* lines 142-144; np.max of an empty array raises ValueError
Normalize ==
    /\ pc = "normalize"
    /\ IF BufLen(audio) = 0
       THEN /\ raised' = "ValueError"
            /\ pc' = "raised"
            /\ UNCHANGED audio
       ELSE /\ audio' = Normalized(audio)
            /\ pc' = "quantize"
            /\ UNCHANGED raised
    /\ UNCHANGED <<duration, bpm, melody_notes, bass_notes, num_samples, i,
                   kick_log, hihat_log, current_time, note_idx, lead_log,
                   bass_log, audio_int16, wav_file, encoder, result_path>>
    /\ UNCHANGED ctl_vars

\* line 147
Quantize ==
    /\ pc = "quantize"
    /\ audio_int16' = Quantized(audio)
    /\ pc' = "write"
    /\ UNCHANGED <<raised, duration, bpm, melody_notes, bass_notes, num_samples,
                   audio, i, kick_log, hihat_log, current_time, note_idx,
                   lead_log, bass_log, wav_file, encoder, result_path>>
    /\ UNCHANGED ctl_vars

\* setsampwidth(1): the frame count doubles
WavFile_SampWidth1(pcm) ==
    [nchannels |-> 1, sampwidth |-> 1, framerate |-> sample_rate,
     nframes |-> (2 * BufLen(pcm)) \div (1 * 1), frames |-> pcm]

\* the container: lines 150-154
WavFile(pcm) ==
    [nchannels |-> 1, sampwidth |-> 2, framerate |-> sample_rate,
     nframes |-> (2 * BufLen(pcm)) \div (2 * 1), frames |-> pcm]

WriteWav ==
    /\ pc = "write"
    /\ wav_file' = << WavFile(audio_int16) >>
    /\ pc' = "convert"
    /\ UNCHANGED <<raised, duration, bpm, melody_notes, bass_notes, num_samples,
                   audio, i, kick_log, hihat_log, current_time, note_idx,
                   lead_log, bass_log, audio_int16, encoder, result_path>>
    /\ UNCHANGED ctl_vars

----------------------------------------------------------------------------
(* convert_wav_to_mp3, called by main() *)

Convert ==
    /\ pc = "convert"
    /\ \E outcome \in EncoderOutcomes :
         LET res == ConvertResult(outcome, "audio.wav", "audio.mp3")
         IN /\ encoder' = outcome
            /\ result_path' = IF res.escaped = "none" THEN res.path ELSE "none"
            /\ raised' = res.escaped
            /\ pc' = IF res.escaped = "none" THEN "done" ELSE "raised"
    /\ UNCHANGED <<duration, bpm, melody_notes, bass_notes, num_samples, audio,
                   i, kick_log, hihat_log, current_time, note_idx, lead_log,
                   bass_log, audio_int16, wav_file>>
    /\ UNCHANGED ctl_vars

----------------------------------------------------------------------------

Init == SynthInit

Next ==
    \/ Timebase
    \/ KickRangeError
    \/ KickStep
    \/ KickExit
    \/ HiHatStep
    \/ HiHatExit
    \/ MelodyWhile
    \/ MelodyExit
    \/ MelodyForEnd
    \/ MelodyNote
    \/ BassWhile
    \/ BassExit
    \/ BassForEnd
    \/ BassNote
    \/ Normalize
    \/ Quantize
    \/ WriteWav
    \/ Convert

Spec == Init /\ [][Next]_vars

FairSpec == Init /\ [][Next]_vars /\ WF_vars(Next)

----------------------------------------------------------------------------
(* Normalization, quantization and the container on drawn buffers.  The     *)
(* pipeline itself never yields a silent buffer (the first kick always      *)
(* fits), so the mixer stages are also run on every buffer of up to         *)
(* MaxBufLen samples with amplitudes from SampleLevels.                     *)

SampleLevels == {-200, -30, 0, 15, 100}

MixInit ==
    /\ pc = "normalize"
    /\ raised = "none"
    /\ duration = 1
    /\ bpm = 120
    /\ melody_notes = <<>>
    /\ bass_notes = <<>>
    /\ \E len \in 1..MaxBufLen :
         \E f \in [0..(len - 1) -> SampleLevels] :
           /\ num_samples = len
           /\ audio = [len |-> len, den |-> Unit, val |-> f]
    /\ i = 0
    /\ kick_log = NoLog
    /\ hihat_log = NoLog
    /\ current_time = 0
    /\ note_idx = 0
    /\ lead_log = NoLog
    /\ bass_log = NoLog
    /\ audio_int16 = Quantized(Zeros(0))
    /\ wav_file = <<>>
    /\ encoder = "none"
    /\ result_path = "none"
    /\ script = "generate_audio"
    /\ CtlIdle

MixNext ==
    \/ Normalize
    \/ Quantize
    \/ WriteWav
    \/ Convert

MixSpec == MixInit /\ [][MixNext]_vars

----------------------------------------------------------------------------
(* Claims *)

AfterNormalize == pc \in {"quantize", "write", "convert", "done"}
AfterQuantize == pc \in {"write", "convert", "done"}
AfterPercussion ==
    pc \in {"melody_while", "melody_for", "bass_while", "bass_for",
            "normalize", "quantize", "write", "convert", "done"}

\* C1: convert_wav_to_mp3 returns the mp3 path exactly when the encoder exits
\* with status 0, returns the wav path for every other outcome (encoder not
\* found, non-zero exit, timeout, any other exception), and never raises.
C1_TranscoderFallback ==
    encoder # "none" =>
        /\ raised = "none"
        /\ pc = "done"
        /\ (result_path = "audio.mp3") <=> (encoder = "exit0")
        /\ encoder # "exit0" => result_path = "audio.wav"

C1_Witness ==
    /\ encoder = "TimeoutExpired"
    /\ result_path = "audio.wav"
    /\ pc = "done"

C3_AllHitsRendered ==
    (duration = 15000 /\ bpm = 120 /\ AfterPercussion) =>
        /\ num_samples = 661500
        /\ Len(kick_log) = 60
        /\ Len(hihat_log) = 30
        /\ \A k \in 1..Len(kick_log) :
             /\ kick_log[k].written
             /\ kick_log[k].beat_end <= num_samples
        /\ \A k \in 1..Len(hihat_log) :
             /\ hihat_log[k].written
             /\ hihat_log[k].beat_end <= num_samples

NotesInBounds(log) ==
    \A k \in 1..Len(log) :
        /\ log[k].time < duration
        /\ log[k].note_start < num_samples
        /\ log[k].note_end <= num_samples
        /\ log[k].note_end <= BufLen(audio)

\* C4: neither sequencer emits a note that starts at or after the target
\* duration, and every emitted note ends, after clamping, at or below the
\* buffer length.
C4_NotesInsideBuffer == NotesInBounds(lead_log) /\ NotesInBounds(bass_log)

C4_Witness ==
    \E k \in 1..Len(bass_log) :
        /\ ToSamples(bass_log[k].time + bass_log[k].dur) > num_samples
        /\ bass_log[k].note_end = num_samples

Silent(buf) == \A s \in DOMAIN buf.val : buf.val[s] = 0

\* C5: after normalization of a non-silent buffer the largest absolute sample
\* is at most 0.95 of full scale, and every quantized value is the exact
\* truncation of its sample and lies within -32767..32767.
C5_NoOverflow ==
    /\ (AfterNormalize /\ ~Silent(audio)) =>
           \A s \in DOMAIN audio.val :
               /\ audio.val[s] * 100 <= 95 * audio.den
               /\ -(audio.val[s] * 100) <= 95 * audio.den
    /\ (AfterQuantize /\ ~Silent(audio)) =>
           \A s \in DOMAIN audio.val :
               LET x == TruncDiv(audio.val[s] * FullScale, audio.den)
               IN /\ x >= -FullScale
                  /\ x <= FullScale
                  /\ s \in DOMAIN audio_int16.val
                  /\ audio_int16.val[s] = x

C5_Witness ==
    /\ AfterQuantize
    /\ audio.den > Unit * PeakDen
    /\ \E s \in DOMAIN audio_int16.val : audio_int16.val[s] = -31128
    /\ \E s \in DOMAIN audio_int16.val : audio_int16.val[s] > 0

\* C6: on an all-zero buffer normalization changes no sample, the quantized
\* stream is all zeros and the container is still written, without an error.
C6_SilenceHandled ==
    [][ /\ (pc = "normalize" /\ Silent(audio)) =>
              (audio' = audio /\ pc' = "quantize" /\ raised' = "none")
        /\ (pc = "quantize" /\ Silent(audio)) =>
              (Silent(audio_int16') /\ BufLen(audio_int16') = BufLen(audio)
               /\ pc' = "write")
        /\ (pc = "write" /\ Silent(audio)) =>
              (wav_file' # <<>> /\ wav_file'[1].nframes = BufLen(audio)
               /\ Silent(wav_file'[1].frames) /\ raised' = "none") ]_vars

C6_Witness ==
    /\ pc = "convert"
    /\ Silent(audio)
    /\ wav_file # <<>>
    /\ wav_file[1].nframes = MaxBufLen
    /\ Silent(wav_file[1].frames)

IsFloorOfDurationTimesRate(n) ==
    /\ n * 1000 <= sample_rate * duration
    /\ sample_rate * duration < (n + 1) * 1000

\* C7: the buffer has exactly floor(D*R) samples when created, every later
\* step keeps that length, and the number of PCM frames written is floor(D*R).
C7_LengthFixed ==
    /\ pc # "start" =>
           /\ IsFloorOfDurationTimesRate(num_samples)
           /\ IsFloorOfDurationTimesRate(BufLen(audio))
    /\ AfterQuantize => IsFloorOfDurationTimesRate(BufLen(audio_int16))
    /\ wav_file # <<>> =>
           /\ IsFloorOfDurationTimesRate(wav_file[1].nframes)
           /\ BufLen(wav_file[1].frames) = wav_file[1].nframes

C7_Witness ==
    /\ pc = "done"
    /\ wav_file # <<>>
    /\ wav_file[1].nframes = 661500
    /\ Cardinality(DOMAIN audio.val) > 1

\* C8: the dry run (simulate_run.py, PUSH_DISCO_SIMULATE=1) with no GPIO
\* library installed constructs the controller, handles one simulated press
\* and reaches cleanup, without a GPIO-backend error.
C8_DryRunWithoutGpio ==
    (script = "simulate_run" /\ ~gpiozero_ok /\ ~rpigpio_ok) =>
        main_pc # "RuntimeError"

\* C9: for every tempo and duration, every beat k whose 150 ms kick window
\* lies inside the buffer has a kick written at the sample index of k beat
\* periods.
C9_KickOnEveryBeat ==
    AfterPercussion =>
        \A k \in 0..((duration * bpm) \div 60000) :
            LET start == (k * sample_rate * 60) \div bpm
            IN start + ToSamples(KickWindowMs) <= num_samples =>
                   \E j \in 1..Len(kick_log) :
                       /\ kick_log[j].written
                       /\ kick_log[j].beat_start = start

\* C10: every hi-hat hit is on beat 2 or 4 of a bar (beat index 2i+1) and
\* starts at the sample index the kick loop computes for that same beat,
\* which is floor(beat index * beat period * rate): no drift.
C10_HiHatAligned ==
    \A h \in 1..Len(hihat_log) :
        hihat_log[h].written =>
            LET b == 2 * hihat_log[h].i + 1
            IN /\ b % 4 \in {1, 3}
               /\ hihat_log[h].beat_start * bpm <= b * sample_rate * 60
               /\ b * sample_rate * 60 < (hihat_log[h].beat_start + 1) * bpm
               /\ \E k \in 1..Len(kick_log) :
                      /\ kick_log[k].i = b
                      /\ kick_log[k].beat_start = hihat_log[h].beat_start

C10_Witness ==
    \E h \in 1..Len(hihat_log) :
        /\ hihat_log[h].written
        /\ hihat_log[h].i >= 2
        /\ (sample_rate * 60) % bpm # 0

HitsSkippedOnlyWhenExceeding(log) ==
    \A k \in 1..Len(log) :
        /\ (~log[k].written) <=> (log[k].beat_end > num_samples)
        /\ log[k].written => log[k].beat_end <= BufLen(audio)

\* C11: a kick or hi-hat hit is skipped exactly when its end sample index
\* exceeds the buffer length; every other hit is written over its whole
\* window, none is truncated at the buffer boundary.
C11_SkippedExactlyWhenExceeding ==
    /\ HitsSkippedOnlyWhenExceeding(kick_log)
    /\ HitsSkippedOnlyWhenExceeding(hihat_log)

RoundRobin(log, table) ==
    \A k \in 1..Len(log) :
        /\ Len(table) > 0
        /\ log[k].idx = ((k - 1) % Len(table)) + 1
        /\ log[k].freq = table[((k - 1) % Len(table)) + 1].freq
        /\ log[k].dur = table[((k - 1) % Len(table)) + 1].dur
        /\ log[k].time = (IF k = 1 THEN 0 ELSE log[k - 1].time + log[k - 1].dur)
        /\ log[k].time < duration

FilledToDuration(log) ==
    /\ Len(log) > 0
    /\ log[Len(log)].time + log[Len(log)].dur >= duration

\* C12: each sequencer emits its table round-robin: the k-th note (from 0) is
\* entry k mod n, it starts at the sum of the durations of the notes before
\* it, and emission goes on, restarting the table, until the cumulative time
\* reaches or exceeds the duration.
C12_RoundRobin ==
    /\ RoundRobin(lead_log, melody_notes)
    /\ RoundRobin(bass_log, bass_notes)
    /\ pc \in {"bass_while", "bass_for", "normalize", "quantize", "write",
               "convert", "done"} => FilledToDuration(lead_log)
    /\ pc \in {"normalize", "quantize", "write", "convert", "done"} =>
           FilledToDuration(bass_log)

C12_Witness ==
    /\ pc = "done"
    /\ Len(lead_log) > Len(melody_notes)
    /\ Len(bass_log) > Len(bass_notes)
    /\ lead_log[Len(melody_notes) + 1].idx = 1

PastCheck(h) == hpc[h] \in {"set", "start", "join"}

\* C14: under any interleaving at most one handle_button_press execution is
\* past the is_playing check: no relay activation is started while another
\* one is in progress.
C14_OneHandlerPastCheck ==
    /\ Cardinality({h \in Handlers : PastCheck(h)}) <= 1
    /\ Cardinality({h \in Handlers : rpc[h] \in {"on", "sleep"}}) <= 1

\* C15: while the controller runs, an accepted press completes with the relay
\* off and is_playing reset to False, whatever the audio outcome, and the
\* relay switched on for a press stays on until that press's own
\* activate_relay switches it off.
C15_RelayHeldByItsPress ==
    [][ \A h \in Handlers :
          main_pc' \in {"run", "in_handler"} =>
            /\ rpc'[h] = "sleep" => relay'
            /\ (hpc[h] = "join" /\ hpc'[h] = "done") =>
                   (~relay' /\ ~is_playing') ]_vars

\* C16: a press ignored because is_playing is already True changes nothing:
\* the ignored call leaves is_playing as it is (True at the check), leaves
\* the relay alone and starts no relay or audio thread.
C16_IgnoredPressChangesNothing ==
    [][ \A h \in Handlers :
          /\ (hpc[h] = "check" /\ hpc'[h] = "ignored") =>
                (is_playing /\ is_playing')
          /\ (hpc[h] \in {"check", "ignored"} /\ hpc'[h] \in {"ignored", "done"}
              /\ hpc'[h] # hpc[h]) =>
                /\ is_playing' = is_playing
                /\ relay' = relay
                /\ rpc' = rpc
                /\ apc' = apc
                /\ wake' = wake
                /\ rpc[h] = "none"
                /\ apc[h] = "none" ]_vars

C16_Witness ==
    \E h \in Handlers :
        /\ hpc[h] = "done"
        /\ rpc[h] = "none"
        /\ apc[h] = "none"
        /\ is_playing
        /\ relay

\* C17: a callback less than DEBOUNCE_DELAY after the last accepted press
\* starts no handler thread and leaves last_button_press unchanged; a handler
\* thread is started only DEBOUNCE_DELAY or more after the previous accepted
\* press, whose time last_button_press then takes.
C17_Debounce ==
    [][ /\ (presses' = presses + 1 /\ now' - last_button_press < DEBOUNCE_DELAY) =>
              (hpc' = hpc /\ last_button_press' = last_button_press)
        /\ \A h \in Handlers :
              (script = "push_disco" /\ hpc[h] = "none" /\ hpc'[h] # "none") =>
                  /\ presses' = presses + 1
                  /\ now' - last_button_press >= DEBOUNCE_DELAY
                  /\ last_button_press' = now' ]_vars

C17_Witness ==
    /\ presses >= 2
    /\ hpc[1] # "none"
    /\ hpc[2] = "none"
    /\ now - last_button_press > 0
    /\ now - last_button_press < DEBOUNCE_DELAY

====
